---------------------------- MODULE Spec2Model ----------------------------
(* A model of genepattern/jobwidget.py: the GPJobWidget that displays a     *)
(* GenePattern job, re-polls it on a Timer while it is pending or running   *)
(* and swaps a sharing panel in and out of its appendix.                    *)
(*                                                                          *)
(* Python values are modelled as follows.  A str is a TLA+ string (Len,     *)
(* SubSeq, Head and \o act on it as on a sequence of characters), a list or *)
(* tuple is a sequence, a dict is a function on its keys, None is the       *)
(* record None.  sharing_displayed holds False, True or a tuple of widgets: *)
(* the records PyFalse, PyTrue and PyTuple(items).                          *)
EXTENDS Integers, Sequences, FiniteSets, TLC

VARIABLES
    server,             \* the job as the GenePattern server holds it now
    job,                \* self.job: the GPJob object (or None) and what it last fetched
    constructed,        \* whether __init__ has run
    name,               \* self.name
    status,             \* self.status
    description,        \* self.description
    files,              \* self.files
    visualization,      \* self.visualization
    error,              \* self.error
    children,           \* self.appendix.children
    sharing_displayed,  \* self.sharing_displayed
    timers,             \* the number of started Timer threads that have not fired yet
    nbuilds,            \* how many times a non-empty list of child GPJobWidgets was constructed
    last,               \* what the last call of poll did: "none", "unauthenticated", "failed", "ok"
    perms,              \* the job's permissions as the server holds them: a list of groups
    group_widgets,      \* the Dropdowns of the sharing form that is displayed
    calls,              \* history: what the handler of the last menu, button or Dropdown
                        \* event called, in order
    shown_before,       \* history: the appendix children when the sharing panel was last toggled on
    fetched,            \* history: the groups fetched for the sharing form that is displayed
    edited,             \* history: whether a Dropdown of the displayed form has been edited
    cycle,              \* history: "none", then "on" (panel toggled on), "on_polled" (a poll
                        \* loaded the job since), "off" and "off_polled" (toggled off again)
    pc                  \* the statement the Timer thread is at in poll, and the statement
                        \* the kernel's thread is at in toggle_job_sharing

vars == <<server, job, constructed, name, status, description, files,
          visualization, error, children, sharing_displayed, timers, nbuilds, last,
          perms, group_widgets, calls, shown_before, fetched, edited, cycle, pc>>

--------------------------------------------------------------------------
(* Bounds *)

MaxFiles == 3

MaxChildren == 2

MaxBuilds == 2

MaxGroups == 2

--------------------------------------------------------------------------
(* Python values *)

None == [none |-> TRUE]

PyFalse == [py |-> "False"]

PyTrue == [py |-> "True"]

PyTuple(items) == [py |-> "tuple", items |-> items]

\* bool(v) for the values sharing_displayed holds
Truthy(v) == v.py = "True" \/ (v.py = "tuple" /\ Len(v.items) > 0)

\* s.endswith(suffix)
EndsWith(s, suffix) ==
    /\ Len(s) >= Len(suffix)
    /\ SubSeq(s, Len(s) - Len(suffix) + 1, Len(s)) = suffix

\* s[n:] (n >= 0)
SliceFrom(s, n) == SubSeq(s, n + 1, Len(s))

\* all sequences over S of length at most n
SeqUpTo(S, n) == UNION {[1..k -> S] : k \in 0..n}

--------------------------------------------------------------------------
(* The widget as one record, so that a call inside a handler composes. *)

Self ==
    [job |-> job, name |-> name, status |-> status, description |-> description,
     files |-> files, visualization |-> visualization, error |-> error,
     children |-> children, sharing_displayed |-> sharing_displayed,
     timers |-> timers, nbuilds |-> nbuilds, last |-> last,
     perms |-> perms, group_widgets |-> group_widgets, calls |-> calls, pc |-> pc]

Becomes(w) ==
    /\ job' = w.job
    /\ name' = w.name
    /\ status' = w.status
    /\ description' = w.description
    /\ files' = w.files
    /\ visualization' = w.visualization
    /\ error' = w.error
    /\ children' = w.children
    /\ sharing_displayed' = w.sharing_displayed
    /\ timers' = w.timers
    /\ nbuilds' = w.nbuilds
    /\ last' = w.last
    /\ perms' = w.perms
    /\ group_widgets' = w.group_widgets
    /\ calls' = w.calls
    /\ pc' = w.pc

--------------------------------------------------------------------------
(* The mapper functions of the widget, of the job j the widget holds. *)

\* status_text with the completed flag tested before the error flag
status_text_completed_first(j) ==
    IF j = None THEN ""
    ELSE LET st == j.info.status IN
         IF "completedInGp" \in DOMAIN st /\ st["completedInGp"] THEN "Completed"
         ELSE IF "hasError" \in DOMAIN st /\ st["hasError"] THEN "Error"
         ELSE IF "isPending" \in DOMAIN st /\ st["isPending"] THEN "Pending"
         ELSE "Running"

\* status_text: error > completed > pending > running, a missing flag being false
status_text(j) ==
    IF j = None THEN ""
    ELSE LET st == j.info.status IN
         IF "hasError" \in DOMAIN st /\ st["hasError"] THEN "Error"
         ELSE IF "completedInGp" \in DOMAIN st /\ st["completedInGp"] THEN "Completed"
         ELSE IF "isPending" \in DOMAIN st /\ st["isPending"] THEN "Pending"
         ELSE "Running"

\* submitted_text
submitted_text(j) ==
    IF j = None THEN None
    ELSE "Submitted by " \o j.info["userId"] \o " on " \o j.date_submitted

\* files_list: the hrefs of the output files, then of the log files
files_list(j) ==
    IF j = None THEN None
    ELSE LET all == j.output_files \o j.log_files IN
         [i \in 1..Len(all) |-> all[i].link.href]

\* single_html of visualizer's loop: None, a link, or False
NoHtml == [html |-> "None"]

ManyHtml == [html |-> "False"]

OneHtml(f) == [html |-> "str", f |-> f]

\* the loop of visualizer from the i-th file on; single_html is what the loop has so far
RECURSIVE visualizer_loop(_, _, _)
visualizer_loop(fs, i, single_html) ==
    IF i > Len(fs)
    THEN IF single_html.html = "str" /\ Len(single_html.f) > 0 THEN single_html.f ELSE ""
    ELSE IF EndsWith(fs[i], "/index.html") THEN fs[i]
    ELSE IF EndsWith(fs[i], ".html") /\ single_html = NoHtml
         THEN visualizer_loop(fs, i + 1, OneHtml(fs[i]))
    ELSE IF EndsWith(fs[i], ".html") /\ single_html # NoHtml
         THEN visualizer_loop(fs, i + 1, ManyHtml)
    ELSE visualizer_loop(fs, i + 1, single_html)

\* launch_path stripping the leading slash only
launch_path_one_char(launch_url) ==
    IF Head(launch_url) = "/" THEN SliceFrom(launch_url, 1) ELSE launch_url

\* the launch URL as visualizer appends it to the server's URL
launch_path(launch_url) ==
    IF Head(launch_url) = "/" THEN SliceFrom(launch_url, 3) ELSE launch_url

\* visualizer taking the first .html link, however many there are
visualizer_first_html(j, fs) ==
    IF j = None THEN None
    ELSE IF "launchUrl" \in DOMAIN j.info
         THEN j.server_data.url \o launch_path(j.info["launchUrl"])
    ELSE LET htmls == {i \in 1..Len(fs) : EndsWith(fs[i], ".html")} IN
         IF htmls = {} THEN ""
         ELSE fs[CHOOSE i \in htmls : \A k \in htmls : i <= k]

\* visualizer, where fs is self.files
visualizer(j, fs) ==
    IF j = None THEN None
    ELSE IF "launchUrl" \in DOMAIN j.info
         THEN j.server_data.url \o launch_path(j.info["launchUrl"])
    ELSE visualizer_loop(fs, 1, NoHtml)

\* poll_if_needed that forgets the pending status
poll_if_needed_running_only(st) ==
    IF st = "Running" THEN 1 ELSE 0

\* poll_if_needed: the number of Timers it starts
poll_if_needed(st) ==
    IF st = "Pending" \/ st = "Running" THEN 1 ELSE 0

--------------------------------------------------------------------------
(* The job object and the server behind it. *)

\* job.get_info() when it does not raise: the job takes the server's present data
get_info(j, srv) ==
    [j EXCEPT !.info = srv.info,
              !.date_submitted = srv.date_submitted,
              !.output_files = srv.output_files,
              !.log_files = srv.log_files,
              !.children = srv.children]

\* job.get_child_jobs(): the job numbers of the child jobs last fetched
get_child_jobs(j) == j.children

\* GPJobWidget(child): a widget object of its own, the n-th list built
GPJobWidget(child, n) == [kind |-> "GPJobWidget", job_number |-> child, gen |-> n]

--------------------------------------------------------------------------
(* poll, of the widget w, with the server as srv.  ok says whether get_info *)
(* returns (TRUE) or raises HTTPError (FALSE).  The Timer that called poll  *)
(* is accounted for by the caller.                                          *)

\* the job can be fetched: there is a job and it has a session
authenticated(j) == j # None /\ j.server_data # None

\* children_needed without the test: every poll builds the child widgets
children_needed_always(ch) == TRUE

\* children_needed that looks for child widgets, so that the sharing box does not count
children_needed_no_widgets(ch) == \A i \in 1..Len(ch) : ch[i].kind # "GPJobWidget"

\* the appendix shows nothing, so poll fills it with the child jobs' widgets
children_needed(ch) == Len(ch) = 0

\* the children poll leaves in the appendix that holds ch
poll_children(ch, kids, n) ==
    IF children_needed(ch)
    THEN [i \in 1..Len(kids) |-> GPJobWidget(kids[i], n)]
    ELSE ch

\* poll_failed that retries: it starts a Timer as poll_if_needed does
poll_failed_retry(w) ==
    [w EXCEPT !.name = "Error Loading Job",
              !.error = "Error loading job #" \o ToString(w.job.job_number),
              !.timers = w.timers + poll_if_needed(w.status),
              !.last = "failed"]

\* poll_failed that blanks the status it can no longer vouch for
poll_failed_clear(w) ==
    [w EXCEPT !.name = "Error Loading Job",
              !.error = "Error loading job #" \o ToString(w.job.job_number),
              !.status = "",
              !.last = "failed"]

\* get_info raised HTTPError
poll_failed(w) ==
    [w EXCEPT !.name = "Error Loading Job",
              !.error = "Error loading job #" \o ToString(w.job.job_number),
              !.last = "failed"]

\* get_info returned: the display fields, the child jobs, the next poll
poll_loaded(w, srv) ==
    LET j == get_info(w.job, srv)
        st == status_text(j)
        fs == files_list(j)
        kids == get_child_jobs(j)
        built == children_needed(w.children) /\ Len(kids) > 0
        n == IF built /\ w.nbuilds < MaxBuilds THEN w.nbuilds + 1 ELSE w.nbuilds
    IN  [w EXCEPT !.job = j,
                  !.name = ToString(j.job_number),
                  !.status = st,
                  !.description = submitted_text(j),
                  !.files = fs,
                  !.visualization = visualizer(j, fs),
                  !.children = poll_children(w.children, kids, n),
                  !.nbuilds = n,
                  !.timers = w.timers + poll_if_needed(st),
                  !.last = "ok"]

\* poll_unauthenticated that polls again later
poll_unauthenticated_retry(w) ==
    [w EXCEPT !.name = "Not Authenticated",
              !.error = "You must be authenticated before the job can be displayed. After you authenticate it may take a few seconds for the information to appear.",
              !.timers = w.timers + 1,
              !.last = "unauthenticated"]

\* no job, or a job without a session
poll_unauthenticated(w) ==
    [w EXCEPT !.name = "Not Authenticated",
              !.error = "You must be authenticated before the job can be displayed. After you authenticate it may take a few seconds for the information to appear.",
              !.last = "unauthenticated"]

poll(w, srv, ok) ==
    IF authenticated(w.job)
    THEN IF ~ok THEN poll_failed(w) ELSE poll_loaded(w, srv)
    ELSE poll_unauthenticated(w)

\* poll up to the fields of the display: get_info has returned
poll_fields(w, srv) ==
    [poll_loaded(w, srv) EXCEPT !.children = w.children,
                                !.nbuilds = w.nbuilds,
                                !.timers = w.timers,
                                !.last = w.last,
                                !.pc = [w.pc EXCEPT !.poll = "test"]]

\* poll's test of the appendix: if len(self.appendix.children) == 0
poll_test(w) ==
    [w EXCEPT !.pc = [w.pc EXCEPT !.poll = IF children_needed(w.children)
                                           THEN "set" ELSE "schedule"]]

\* poll's assignment of the child widgets, the test having passed
poll_set(w) ==
    LET kids == get_child_jobs(w.job)
        n == IF Len(kids) > 0 /\ w.nbuilds < MaxBuilds THEN w.nbuilds + 1 ELSE w.nbuilds
    IN  [w EXCEPT !.children = [i \in 1..Len(kids) |-> GPJobWidget(kids[i], n)],
                  !.nbuilds = n,
                  !.pc = [w.pc EXCEPT !.poll = "schedule"]]

\* poll's last statement: self.poll_if_needed()
poll_schedule(w) ==
    [w EXCEPT !.timers = w.timers + poll_if_needed(w.status),
              !.last = "ok",
              !.pc = [w.pc EXCEPT !.poll = "idle"]]

--------------------------------------------------------------------------
(* The sharing panel. *)

\* the job object has the method itself; otherwise the shim's function is used
has_method(j) == j # None /\ j.native

\* job.get_permissions() or the shim's get_permissions(job), when it returns
get_permissions(w) == [groups |-> w.perms]

\* job.set_permissions(p) or the shim's set_permissions(job, p), when it returns
set_permissions(w, p) == [w EXCEPT !.perms = p]

GetPermissionsCall(j) ==
    [op |-> "get_permissions", via |-> IF has_method(j) THEN "job" ELSE "shim"]

SetPermissionsCall(j, p) ==
    [op |-> "set_permissions", via |-> IF has_method(j) THEN "job" ELSE "shim", arg |-> p]

ToggleCall == [op |-> "toggle_job_sharing"]

Raised == [op |-> "raise"]

\* Dropdown that shows a group that may write as 'Read & Write', readable or not
Dropdown_write_first(g) ==
    [description |-> g.id,
     value |-> IF g.write THEN "Read & Write"
               ELSE IF g.read THEN "Read"
               ELSE "Private"]

\* the Dropdown of group g: 'Private', the first option, unless a value is set
Dropdown(g) ==
    [description |-> g.id,
     value |-> IF g.read /\ g.write THEN "Read & Write"
               ELSE IF g.read THEN "Read"
               ELSE "Private"]

\* build_sharing_controls: one Dropdown for each group of the permissions fetched
group_widgets_of(groups) == [i \in 1..Len(groups) |-> Dropdown(groups[i])]

\* build_sharing_controls: the VBox of the sharing form
build_sharing_controls(w) == [kind |-> "VBox"]

\* toggle_off that refreshes the widget's polling when the panel closes
toggle_off_repoll(w) ==
    [w EXCEPT !.children = IF w.sharing_displayed # PyTrue
                           THEN w.sharing_displayed.items ELSE <<>>,
              !.sharing_displayed = PyFalse,
              !.group_widgets = <<>>,
              !.timers = w.timers + poll_if_needed(w.status)]

\* toggle_job_sharing, the panel being displayed: the saved children come back
toggle_off(w) ==
    [w EXCEPT !.children = IF w.sharing_displayed # PyTrue
                           THEN w.sharing_displayed.items ELSE <<>>,
              !.sharing_displayed = PyFalse,
              !.group_widgets = <<>>]

\* toggle_on that does not save the children
toggle_on_forget(w) ==
    LET permissions_box == build_sharing_controls(w) IN
    [w EXCEPT !.sharing_displayed = PyTrue,
              !.children = <<permissions_box>>,
              !.group_widgets = group_widgets_of(get_permissions(w).groups),
              !.calls = Append(w.calls, GetPermissionsCall(w.job))]

\* toggle_job_sharing, the panel not being displayed: the children are saved
toggle_on(w) ==
    LET permissions_box == build_sharing_controls(w) IN
    [w EXCEPT !.sharing_displayed = IF Len(w.children) > 0
                                    THEN PyTuple(w.children) ELSE PyTrue,
              !.children = <<permissions_box>>,
              !.group_widgets = group_widgets_of(get_permissions(w).groups),
              !.calls = Append(w.calls, GetPermissionsCall(w.job))]

\* toggle_job_sharing, the panel not being displayed, when fetching the permissions
\* raises: build_sharing_controls is the first statement of the branch
toggle_on_raised(w) ==
    [w EXCEPT !.calls = w.calls \o <<GetPermissionsCall(w.job), Raised>>]

\* toggle_job_sharing
toggle_job_sharing(w) ==
    LET called == [w EXCEPT !.calls = Append(w.calls, ToggleCall)] IN
    IF Truthy(w.sharing_displayed) THEN toggle_off(called) ELSE toggle_on(called)

\* toggle_job_sharing when build_sharing_controls raises, should it be called
toggle_job_sharing_raised(w) ==
    LET called == [w EXCEPT !.calls = Append(w.calls, ToggleCall)] IN
    IF Truthy(w.sharing_displayed) THEN toggle_off(called) ELSE toggle_on_raised(called)

\* toggle_job_sharing's test: if self.sharing_displayed
toggle_test(w) ==
    [w EXCEPT !.calls = <<ToggleCall>>,
              !.pc = [w.pc EXCEPT !.ui = IF Truthy(w.sharing_displayed)
                                         THEN "restore" ELSE "build"]]

\* the panel being displayed: self.appendix.children = ...
toggle_restore(w) ==
    [w EXCEPT !.children = toggle_off(w).children,
              !.pc = [w.pc EXCEPT !.ui = "clear"]]

\* the panel being displayed: self.sharing_displayed = False
toggle_clear(w) ==
    [w EXCEPT !.sharing_displayed = PyFalse,
              !.group_widgets = <<>>,
              !.pc = [w.pc EXCEPT !.ui = "idle"]]

\* the panel being off: permissions_box = self.build_sharing_controls()
toggle_build(w) ==
    [w EXCEPT !.group_widgets = toggle_on(w).group_widgets,
              !.calls = toggle_on(w).calls,
              !.pc = [w.pc EXCEPT !.ui = "save"]]

\* the panel being off: self.sharing_displayed = the children, or True
toggle_save(w) ==
    [w EXCEPT !.sharing_displayed = toggle_on(w).sharing_displayed,
              !.pc = [w.pc EXCEPT !.ui = "attach"]]

\* the panel being off: self.appendix.children = [permissions_box]
toggle_attach(w) ==
    [w EXCEPT !.children = <<build_sharing_controls(w)>>,
              !.pc = [w.pc EXCEPT !.ui = "idle"]]

\* save_perms_entry with the rights of 'Read' and 'Read & Write' exchanged
save_perms_entry_swapped(g) ==
    IF g.value = "Read" THEN [id |-> g.description, read |-> TRUE, write |-> TRUE]
    ELSE IF g.value = "Read & Write" THEN [id |-> g.description, read |-> TRUE, write |-> FALSE]
    ELSE [id |-> g.description, read |-> FALSE, write |-> FALSE]

\* save_permissions: the list it passes to set_permissions
save_perms_entry(g) ==
    IF g.value = "Read & Write" THEN [id |-> g.description, read |-> TRUE, write |-> TRUE]
    ELSE IF g.value = "Read" THEN [id |-> g.description, read |-> TRUE, write |-> FALSE]
    ELSE [id |-> g.description, read |-> FALSE, write |-> FALSE]

save_perms_of(gw) == [i \in 1..Len(gw) |-> save_perms_entry(gw[i])]

\* save_permissions, the Save button's handler, when set_permissions returns
save_permissions(w) ==
    LET save_perms == save_perms_of(w.group_widgets)
        called == [w EXCEPT !.calls = Append(w.calls, SetPermissionsCall(w.job, save_perms))]
    IN  toggle_job_sharing(set_permissions(called, save_perms))

\* save_permissions_raised that closes the panel before it saves
save_permissions_raised_toggle_first(w) ==
    LET save_perms == save_perms_of(w.group_widgets)
        closed == toggle_job_sharing(w)
    IN  [closed EXCEPT !.calls = closed.calls \o
                           <<SetPermissionsCall(w.job, save_perms), Raised>>]

\* save_permissions when set_permissions raises, the server's permissions being
\* left as they were: the handler ends there
save_permissions_raised(w) ==
    LET save_perms == save_perms_of(w.group_widgets) IN
    [w EXCEPT !.calls = w.calls \o <<SetPermissionsCall(w.job, save_perms), Raised>>]

\* cancel that saves as the Save button does
cancel_saves(w) == save_permissions(w)

\* the Cancel button's handler: lambda b: self.toggle_job_sharing()
cancel(w) == toggle_job_sharing(w)

\* attach_sharing
attach_sharing(w) ==
    IF Truthy(w.sharing_displayed) THEN toggle_job_sharing(w) ELSE w

--------------------------------------------------------------------------
(* What the server may hold, and the jobs a widget may be constructed on. *)

Flags == {"hasError", "completedInGp", "isPending"}

\* every status dict: each flag true, false or absent
StatusDicts == UNION {[D -> BOOLEAN] : D \in SUBSET Flags}

\* one status dict for each status text: no flag (running), or one flag, set
OneFlagStatusDicts ==
    {s \in StatusDicts : Cardinality(DOMAIN s) <= 1 /\ \A k \in DOMAIN s : s[k]}

Links == {"o/index.html", "o/a.html", "o/xindex.html", "o/c.txt"}

LaunchUrls == {"/gp/v.html", "w/v.html", "/a"}

File(href) == [link |-> [href |-> href]]

\* the lists of child job numbers: none, one child, ..., MaxChildren children
ChildLists == {[i \in 1..n |-> 100 + i] : n \in 0..MaxChildren}

\* the info dicts: the launch URL is optional
Infos(statuses, users, launches) ==
    {[userId |-> u, status |-> s] : u \in users, s \in statuses}
    \cup {[userId |-> u, status |-> s, launchUrl |-> l] :
              u \in users, s \in statuses, l \in launches}

\* the job data the server may hold
Servers(infos, outs, logs, kids) ==
    [info : infos, date_submitted : {"2020-01-31"},
     output_files : outs, log_files : logs, children : kids]

\* the server of Spec: a job that changes under the widget
SpecInfos == Infos(OneFlagStatusDicts, {"ann"}, {"/gp/v.html"})

SpecOutputFiles == {<<>>, <<File("o/index.html")>>}

SpecServers ==
    Servers(SpecInfos, SpecOutputFiles, {<<File("o/stderr.txt")>>}, ChildLists)

\* the server of MapperSpec: every input of the mapper functions
MapperServers ==
    Servers(Infos(StatusDicts, {"ann", "bob"}, LaunchUrls),
            SeqUpTo({File(l) : l \in Links}, MaxFiles), {<<>>, <<File("o/stderr.txt")>>},
            {<<>>})

ServerData == [url |-> "https://gp/gp"]

\* a GPJob before its first get_info
GPJob(server_data, job_number) ==
    [job_number |-> job_number, server_data |-> server_data, info |-> None,
     date_submitted |-> None, output_files |-> <<>>, log_files |-> <<>>,
     children |-> <<>>, native |-> TRUE]

\* the job argument of the constructor: no job, a job without a session, a job
Jobs == {None, GPJob(None, 42), GPJob(ServerData, 42)}

--------------------------------------------------------------------------
(* The state machine. *)

\* the object before __init__ runs: the class attributes and UIOutput's empty fields
\* neither thread is inside poll or toggle_job_sharing
Idle == [poll |-> "idle", ui |-> "idle"]

InitFields ==
    /\ constructed = FALSE
    /\ name = ""
    /\ status = ""
    /\ description = ""
    /\ files = <<>>
    /\ visualization = ""
    /\ error = ""
    /\ children = <<>>
    /\ sharing_displayed = PyFalse
    /\ timers = 0
    /\ nbuilds = 0
    /\ last = "none"
    /\ group_widgets = <<>>
    /\ calls = <<>>
    /\ shown_before = <<>>
    /\ fetched = <<>>
    /\ edited = FALSE
    /\ cycle = "none"
    /\ pc = Idle

\* one group, which may read the job
SpecPerms == <<[id |-> "g1", read |-> TRUE, write |-> FALSE]>>

\* the object before __init__ runs, with the job it will be constructed on
InitWidget == job \in Jobs /\ InitFields

Init == server \in SpecServers /\ perms = SpecPerms /\ InitWidget

\* __init__: poll, then attach_sharing
GPJobWidget_init ==
    /\ ~constructed
    /\ constructed' = TRUE
    /\ \E ok \in BOOLEAN : Becomes(attach_sharing(poll(Self, server, ok)))
    /\ UNCHANGED <<server, shown_before, fetched, edited, cycle>>

\* a Timer started by poll_if_needed fires: lambda: self.poll()
TimerPoll ==
    /\ constructed
    /\ timers > 0
    /\ \E ok \in BOOLEAN : Becomes(poll([Self EXCEPT !.timers = @ - 1], server, ok))
    /\ cycle' = IF cycle = "on" /\ last' = "ok" THEN "on_polled" ELSE cycle
    /\ UNCHANGED <<server, constructed, shown_before, fetched, edited>>

\* the history of a handler that toggles the sharing panel
Toggled ==
    /\ shown_before' = IF Truthy(sharing_displayed) THEN shown_before ELSE children
    /\ fetched' = IF Truthy(sharing_displayed) THEN <<>> ELSE perms
    /\ edited' = IF Truthy(sharing_displayed) THEN edited ELSE FALSE
    /\ cycle' = IF ~Truthy(sharing_displayed) THEN "on"
                ELSE IF cycle = "on_polled" THEN "off_polled" ELSE "off"

\* the 'Share Job' menu item: toggle_job_sharing
ShareJob ==
    /\ constructed
    /\ Becomes(toggle_job_sharing([Self EXCEPT !.calls = <<>>]))
    /\ Toggled
    /\ UNCHANGED <<server, constructed>>

\* the 'Share Job' menu item while the panel is off, fetching the permissions raising
ShareJobRaises ==
    /\ constructed
    /\ ~Truthy(sharing_displayed)
    /\ Becomes(toggle_job_sharing_raised([Self EXCEPT !.calls = <<>>]))
    /\ UNCHANGED <<server, constructed, shown_before, fetched, edited, cycle>>

\* the box of the sharing form is displayed, so its widgets can be used
FormDisplayed == constructed /\ children = <<build_sharing_controls(Self)>>

DropdownOptions == {"Private", "Read", "Read & Write"}

\* the user picks another option in a Dropdown of the form
EditDropdown ==
    /\ FormDisplayed
    /\ \E i \in 1..Len(group_widgets) :
          \E v \in DropdownOptions \ {group_widgets[i].value} :
             group_widgets' = [group_widgets EXCEPT ![i].value = v]
    /\ edited' = TRUE
    /\ calls' = <<>>
    /\ UNCHANGED <<server, job, constructed, name, status, description, files,
                   visualization, error, children, sharing_displayed, timers, nbuilds,
                   last, perms, shown_before, fetched, cycle, pc>>

\* the Cancel button
Cancel ==
    /\ FormDisplayed
    /\ Becomes(cancel([Self EXCEPT !.calls = <<>>]))
    /\ Toggled
    /\ UNCHANGED <<server, constructed>>

\* the Save button, set_permissions returning
Save ==
    /\ FormDisplayed
    /\ Becomes(save_permissions([Self EXCEPT !.calls = <<>>]))
    /\ Toggled
    /\ UNCHANGED <<server, constructed>>

\* the Save button, set_permissions raising
SaveRaises ==
    /\ FormDisplayed
    /\ Becomes(save_permissions_raised([Self EXCEPT !.calls = <<>>]))
    /\ UNCHANGED <<server, constructed, shown_before, fetched, edited, cycle>>

\* the widget's own variables, which the server does not touch
widget_vars ==
    <<job, constructed, name, status, description, files, visualization, error,
      children, sharing_displayed, timers, nbuilds, last, perms, group_widgets,
      calls, shown_before, fetched, edited, cycle, pc>>

\* the job's info changes on the server
ServerInfoStep(infos) ==
    \E i \in infos \ {server.info} : server' = [server EXCEPT !.info = i]

\* the job's output files change on the server
ServerFilesStep(outs) ==
    \E o \in outs \ {server.output_files} : server' = [server EXCEPT !.output_files = o]

\* the job's child jobs change on the server
ServerChildrenStep(kids) ==
    \E c \in kids \ {server.children} : server' = [server EXCEPT !.children = c]

\* the job changes on the server: its info, its output files or its child jobs
ServerStep ==
    /\ \/ ServerInfoStep(SpecInfos)
       \/ ServerFilesStep(SpecOutputFiles)
       \/ ServerChildrenStep(ChildLists)
    /\ UNCHANGED widget_vars

Next == GPJobWidget_init \/ TimerPoll \/ ShareJob \/ ServerStep

Spec == Init /\ [][Next]_vars

\* the server of LiveSpec: a job whose status and child jobs change
LiveInfos == Infos(OneFlagStatusDicts, {"ann"}, {})

LiveServers == Servers(LiveInfos, {<<>>}, {<<File("o/stderr.txt")>>}, ChildLists)

LiveInit == server \in LiveServers /\ perms = SpecPerms /\ InitWidget

LiveServerStep ==
    /\ \/ ServerInfoStep(LiveInfos)
       \/ ServerChildrenStep(ChildLists)
    /\ UNCHANGED widget_vars

LiveNext == GPJobWidget_init \/ TimerPoll \/ ShareJob \/ LiveServerStep

\* the constructor runs to its end, and a Timer thread runs its callback once its
\* delay has passed
LiveSpec ==
    LiveInit /\ [][LiveNext]_vars /\ WF_vars(GPJobWidget_init) /\ WF_vars(TimerPoll)

\* the permissions the server may hold: up to MaxGroups groups, each with any rights
PermsLists ==
    UNION {[1..n -> BOOLEAN \X BOOLEAN] : n \in 0..MaxGroups}

Perms(rights) ==
    [i \in 1..Len(rights) |->
        [id |-> "g" \o ToString(i), read |-> rights[i][1], write |-> rights[i][2]]]

\* the server of ShareSpec: a job that runs or has completed, with its child jobs
ShareInfos ==
    {i \in LiveInfos : i.status = <<>> \/ "completedInGp" \in DOMAIN i.status}

\* the child jobs of ShareSpec: none, or as many as a job has
ShareChildLists == {c \in ChildLists : Len(c) \in {0, MaxChildren}}

ShareServers ==
    Servers(ShareInfos, {<<>>}, {<<File("o/stderr.txt")>>}, ShareChildLists)

\* the jobs of ShareSpec: with the permissions methods, or left to the shim
ShareJobs == {[GPJob(ServerData, 42) EXCEPT !.native = b] : b \in BOOLEAN}

ShareInit ==
    /\ server \in ShareServers
    /\ \E rights \in PermsLists : perms = Perms(rights)
    /\ job \in ShareJobs
    /\ InitFields

ShareNext ==
    \/ GPJobWidget_init
    \/ TimerPoll
    \/ ShareJob
    \/ ShareJobRaises
    \/ EditDropdown
    \/ Cancel
    \/ Save
    \/ SaveRaises

\* the sharing form with polls as whole steps
ShareSpec == ShareInit /\ [][ShareNext]_vars

\* the server of RaceSpec: a job that runs, and may complete, with its child jobs
RaceInfos == {i \in ShareInfos : i.status = <<>>}

RaceServers ==
    Servers(RaceInfos, {<<>>}, {<<File("o/stderr.txt")>>}, ShareChildLists)

\* the job completes, or runs again, or its child jobs change on the server
RaceServerStep ==
    /\ \/ ServerInfoStep(ShareInfos)
       \/ ServerChildrenStep(ShareChildLists)
    /\ UNCHANGED widget_vars

RaceInit ==
    /\ server \in RaceServers
    /\ perms = SpecPerms
    /\ job = GPJob(ServerData, 42)
    /\ InitFields

\* the history and the server, which a statement of poll leaves alone
poll_frame == <<server, constructed, shown_before, fetched, edited, cycle>>

\* a Timer fires and poll runs up to the fields of the display, or fails
PollFetch ==
    /\ constructed
    /\ timers > 0
    /\ pc.poll = "idle"
    /\ \E ok \in BOOLEAN :
          LET fired == [Self EXCEPT !.timers = @ - 1]
          IN  Becomes(IF ok THEN poll_fields(fired, server) ELSE poll_failed(fired))
    /\ UNCHANGED poll_frame

PollTest ==
    /\ pc.poll = "test"
    /\ Becomes(poll_test(Self))
    /\ UNCHANGED poll_frame

PollSet ==
    /\ pc.poll = "set"
    /\ Becomes(poll_set(Self))
    /\ UNCHANGED poll_frame

PollSchedule ==
    /\ pc.poll = "schedule"
    /\ Becomes(poll_schedule(Self))
    /\ UNCHANGED poll_frame

\* the 'Share Job' menu item or the Cancel button: toggle_job_sharing is entered
ToggleTest ==
    /\ constructed
    /\ pc.ui = "idle"
    /\ Becomes(toggle_test(Self))
    /\ UNCHANGED <<server, constructed, shown_before, fetched, edited, cycle>>

ToggleRestore ==
    /\ pc.ui = "restore"
    /\ Becomes(toggle_restore(Self))
    /\ UNCHANGED <<server, constructed, shown_before, fetched, edited, cycle>>

ToggleClear ==
    /\ pc.ui = "clear"
    /\ Becomes(toggle_clear(Self))
    /\ cycle' = "off"
    /\ UNCHANGED <<server, constructed, shown_before, fetched, edited>>

ToggleBuild ==
    /\ pc.ui = "build"
    /\ Becomes(toggle_build(Self))
    /\ fetched' = perms
    /\ UNCHANGED <<server, constructed, shown_before, edited, cycle>>

ToggleSave ==
    /\ pc.ui = "save"
    /\ Becomes(toggle_save(Self))
    /\ shown_before' = children
    /\ UNCHANGED <<server, constructed, fetched, edited, cycle>>

ToggleAttach ==
    /\ pc.ui = "attach"
    /\ Becomes(toggle_attach(Self))
    /\ cycle' = "on"
    /\ UNCHANGED <<server, constructed, shown_before, fetched, edited>>

RaceNext ==
    \/ GPJobWidget_init
    \/ PollFetch
    \/ PollTest
    \/ PollSet
    \/ PollSchedule
    \/ ToggleTest
    \/ ToggleRestore
    \/ ToggleClear
    \/ ToggleBuild
    \/ ToggleSave
    \/ ToggleAttach
    \/ RaceServerStep

\* poll on its Timer thread and toggle_job_sharing on the kernel's thread, statement
\* by statement
RaceSpec == RaceInit /\ [][RaceNext]_vars

\* the mapper functions on every input: one job, fetched as the server holds it
MapperInit == server \in MapperServers /\ perms = SpecPerms /\ InitWidget

MapperNext == GPJobWidget_init \/ TimerPoll

MapperSpec == MapperInit /\ [][MapperNext]_vars

--------------------------------------------------------------------------
(* Properties. *)

NonTerminal == {"Pending", "Running"}

Terminal == {"Completed", "Error"}

\* the Timers a poll has started: those pending after it, less those pending
\* before it that were not the one that called it
Started(fired) == timers' - (timers - fired)

\* C1: a poll whose get_info returns starts exactly one Timer when the status text
\* it has just computed is Pending or Running, and none when it is Completed or Error
C1_OneTimerPerLoadedPoll ==
    [][/\ (GPJobWidget_init /\ last' = "ok") =>
            /\ status' \in NonTerminal => Started(0) = 1
            /\ status' \in Terminal => Started(0) = 0
            /\ status' \in NonTerminal \cup Terminal
       /\ (TimerPoll /\ last' = "ok") =>
            /\ status' \in NonTerminal => Started(1) = 1
            /\ status' \in Terminal => Started(1) = 0
            /\ status' \in NonTerminal \cup Terminal]_vars

\* C1 witness: a Timer's poll loaded a pending job while the panel was shown
C1_Witness ==
    /\ cycle = "on_polled"
    /\ last = "ok"
    /\ status = "Pending"
    /\ timers = 1

\* C2: a poll whose get_info raises shows the error state, naming the job, starts
\* no Timer whatever status was displayed, and no poll of the widget follows it
C2_FailedPollStops ==
    [][/\ (GPJobWidget_init /\ last' = "failed") => Started(0) = 0
       /\ (TimerPoll /\ last' = "failed") => Started(1) = 0
       /\ last' = "failed" =>
            /\ name' = "Error Loading Job"
            /\ error' = "Error loading job #42"
            /\ timers' = 0
       /\ last = "failed" => ~TimerPoll /\ ~GPJobWidget_init /\ last' = "failed"]_vars

\* C2 witness: the fetch failed on a widget that displays a running job
C2_Witness ==
    /\ last = "failed"
    /\ status = "Running"
    /\ name = "Error Loading Job"

\* whether flag k of the status dict st is present and true
FlagSet(st, k) == \E d \in DOMAIN st : d = k /\ st[d] = TRUE

\* C3: for every combination of hasError, completedInGp and isPending, each true,
\* false or absent, the status is Error if hasError is true, else Completed if
\* completedInGp is true, else Pending if isPending is true, else Running
C3_StatusPrecedence ==
    last = "ok" =>
        LET e == FlagSet(job.info.status, "hasError")
            c == FlagSet(job.info.status, "completedInGp")
            p == FlagSet(job.info.status, "isPending")
        IN  /\ e => status = "Error"
            /\ (~e /\ c) => status = "Completed"
            /\ (~e /\ ~c /\ p) => status = "Pending"
            /\ (~e /\ ~c /\ ~p) => status = "Running"

\* C3 witness: hasError present and false, completedInGp and isPending true
C3_Witness ==
    /\ last = "ok"
    /\ job.info.status = [hasError |-> FALSE, completedInGp |-> TRUE, isPending |-> TRUE]
    /\ status = "Completed"

\* C4: toggling the sharing panel off leaves in the appendix exactly the children it
\* showed when the panel was toggled on, whatever polls ran before or in between
C4_ToggleRestoresChildren ==
    [][(ShareJob /\ Truthy(sharing_displayed)) =>
            /\ children' = shown_before
            /\ ~Truthy(sharing_displayed')]_vars

\* C4 witness: children were shown, the panel was toggled on, a poll loaded the job
\* and the panel was toggled off: the children are back
C4_Witness ==
    /\ cycle = "off_polled"
    /\ Len(children) = MaxChildren
    /\ children = shown_before
    /\ \A i \in 1..Len(children) : children[i].kind = "GPJobWidget"

\* the widget has fetched its job at least once: job holds the last snapshot fetched
Fetched == job # None /\ job.info # None

\* status, description, files and visualization are what the mapper functions give
\* on the last snapshot fetched
MappedFromSnapshot ==
    /\ status = status_text(job)
    /\ description = submitted_text(job)
    /\ files = files_list(job)
    /\ visualization = visualizer(job, files_list(job))

Ending(fs, suffix) == {i \in 1..Len(fs) : EndsWith(fs[i], suffix)}

\* C6: without a launchUrl the visualization is the first link ending in
\* /index.html wherever it stands; failing that the only link ending in .html;
\* and the empty string when no link or several links end in .html
C6_VisualizerFromFiles ==
    (last = "ok" /\ "launchUrl" \notin DOMAIN job.info) =>
        LET index == Ending(files, "/index.html")
            html == Ending(files, ".html")
        IN  /\ index # {} =>
                 \E i \in index : /\ \A k \in index : i <= k
                                   /\ visualization = files[i]
            /\ (index = {} /\ Cardinality(html) = 1) =>
                 \E i \in html : visualization = files[i]
            /\ (index = {} /\ Cardinality(html) # 1) => visualization = ""

\* C6 witness: index.html is picked after two other .html links
C6_Witness ==
    /\ last = "ok"
    /\ "launchUrl" \notin DOMAIN job.info
    /\ Len(files) >= 3
    /\ files[1] = "o/a.html"
    /\ files[2] = "o/xindex.html"
    /\ files[3] = "o/index.html"
    /\ visualization = "o/index.html"

\* the status text of the job as the server holds it now
ServerStatus == status_text(server)

\* every fetch succeeds, the job reports no terminal status but t, and from some
\* time on it reports t for good
ReachesTerminal(t) ==
    /\ authenticated(job)
    /\ [](last # "failed")
    /\ [](ServerStatus \in Terminal => ServerStatus = t)
    /\ <>[](ServerStatus = t)

\* C7: if every fetch succeeds and the job comes to report Completed (or Error) and
\* keeps reporting it, the widget eventually displays that status with no Timer
\* pending, for good; and while the status last fetched is Pending or Running a
\* Timer is pending
C7_PollsUntilTerminal ==
    /\ [](last = "ok" /\ status \in NonTerminal => timers = 1)
    /\ ReachesTerminal("Completed") => <>[](status = "Completed" /\ timers = 0)
    /\ ReachesTerminal("Error") => <>[](status = "Error" /\ timers = 0)

\* C7 witness: a Timer's poll loaded the job as completed: no Timer is pending
C7_Witness ==
    /\ cycle = "on_polled"
    /\ last = "ok"
    /\ status = "Completed"
    /\ ServerStatus = "Completed"
    /\ timers = 0

\* the child widgets the widget holds: in the appendix, or saved while the panel shows
ChildWidgets ==
    IF sharing_displayed.py = "tuple" THEN sharing_displayed.items
    ELSE IF sharing_displayed.py = "True" THEN <<>>
    ELSE children

\* C8: child widgets are constructed at most once, and once the widget holds child
\* widgets no poll or toggle rebuilds or replaces them
C8_ChildrenBuiltOnce ==
    [][/\ nbuilds' <= 1
       /\ ChildWidgets # <<>> => ChildWidgets' = ChildWidgets]_vars

\* C8 witness: the children were built once, saved by a toggle, and polls loaded a
\* job that still has child jobs while the panel was shown and after it was closed
C8_Witness ==
    /\ nbuilds = 1
    /\ cycle = "off_polled"
    /\ last = "ok"
    /\ Len(job.children) > 0
    /\ Len(children) > 0
    /\ job.children # [i \in 1..Len(children) |-> children[i].job_number]

\* C9: a widget with no job, or with a job that has no server_data, fetches
\* nothing, shows 'Not Authenticated' and the static message, builds no child
\* widget and starts no Timer, and stays so
C9_Unauthenticated ==
    (constructed /\ (job = None \/ job.server_data = None)) =>
        /\ name = "Not Authenticated"
        /\ error = "You must be authenticated before the job can be displayed. After you authenticate it may take a few seconds for the information to appear."
        /\ last = "unauthenticated"
        /\ job # None => job.info = None
        /\ status = ""
        /\ files = <<>>
        /\ nbuilds = 0
        /\ ChildWidgets = <<>>
        /\ timers = 0

\* C9 witness: a widget constructed on a job without a session
C9_Witness ==
    /\ constructed
    /\ job # None
    /\ job.server_data = None
    /\ name = "Not Authenticated"

\* C10: with a launchUrl the visualization is the server's URL followed by the
\* launch URL, less its first 3 characters when it starts with a slash, whatever
\* the file links are
C10_VisualizerFromLaunchUrl ==
    (last = "ok" /\ "launchUrl" \in DOMAIN job.info) =>
        LET launch_url == job.info["launchUrl"]
            rooted == SubSeq(launch_url, 1, 1) = "/"
        IN  /\ rooted =>
                 visualization = "https://gp/gp" \o SubSeq(launch_url, 4, Len(launch_url))
            /\ ~rooted => visualization = "https://gp/gp" \o launch_url
            /\ launch_url = "/gp/v.html" => visualization = "https://gp/gp/v.html"
            /\ launch_url = "/a" => visualization = "https://gp/gp"
            /\ launch_url = "w/v.html" => visualization = "https://gp/gpw/v.html"

\* C10 witness: a rooted launch URL wins over an index.html link
C10_Witness ==
    /\ last = "ok"
    /\ "launchUrl" \in DOMAIN job.info
    /\ job.info["launchUrl"] = "/gp/v.html"
    /\ files = <<"o/index.html">>
    /\ visualization = "https://gp/gp/v.html"

--------------------------------------------------------------------------
(* Properties of the sharing form. *)

\* the places of the calls of op in the list of calls cs
CallsOf(cs, op) == {k \in 1..Len(cs) : cs[k].op = op}

\* the rights the options of a Dropdown stand for
RightsOf(value) ==
    CASE value = "Read & Write" -> <<TRUE, TRUE>>
      [] value = "Read" -> <<TRUE, FALSE>>
      [] value = "Private" -> <<FALSE, FALSE>>

\* the list p holds one entry for each fetched group, in order, with the group's id
\* and the rights of the group's Dropdown
Commits(p) ==
    /\ Len(p) = Len(fetched)
    /\ \A i \in 1..Len(p) :
          /\ p[i].id = fetched[i].id
          /\ <<p[i].read, p[i].write>> = RightsOf(group_widgets[i].value)

\* C11: a Save click calls set_permissions exactly once, by the job's method if it
\* has one and by the shim otherwise, with one entry for each fetched group, in the
\* fetched order, with the group's id and the rights of its Dropdown's value; the
\* panel is toggled off after that call, and only once it has returned
C11_SaveCommitsDropdowns ==
    [][/\ (Save \/ SaveRaises) =>
            /\ CallsOf(calls', "set_permissions") = {1}
            /\ calls'[1].via = (IF job.native THEN "job" ELSE "shim")
            /\ Commits(calls'[1].arg)
       /\ Save =>
            /\ calls' = <<calls'[1], ToggleCall>>
            /\ ~Truthy(sharing_displayed')
       /\ SaveRaises =>
            /\ CallsOf(calls', "toggle_job_sharing") = {}
            /\ Truthy(sharing_displayed')]_vars

\* C11 witness: two groups were saved through the shim, the first edited to
\* 'Read & Write' and the second to 'Private', and the panel is off
C11_Witness ==
    /\ Len(calls) = 2
    /\ calls[1].op = "set_permissions"
    /\ calls[1].via = "shim"
    /\ calls[1].arg = <<[id |-> "g1", read |-> TRUE, write |-> TRUE],
                        [id |-> "g2", read |-> FALSE, write |-> FALSE]>>
    /\ calls[2] = ToggleCall
    /\ edited
    /\ ~Truthy(sharing_displayed)

\* C13: at most one Timer of the widget is pending at any time, and the firing of
\* a Timer is one call of poll, which leaves at most the Timer it starts itself
C13_OneTimerPending ==
    /\ [](timers <= 1)
    /\ [][TimerPoll =>
            /\ timers = 1
            /\ last' \in {"ok", "failed"}
            /\ timers' = poll_if_needed(status') \/ (last' = "failed" /\ timers' = 0)]_vars

\* C13 witness: a Timer is pending after polls and a toggle cycle
C13_Witness ==
    /\ timers = 1
    /\ cycle = "off_polled"
    /\ status = "Running"
    /\ last = "ok"

\* the box of the sharing form, as build_sharing_controls returns it
Box == [kind |-> "VBox"]

\* C14: sharing_displayed is falsy exactly when the appendix does not show the
\* permissions box; while it is truthy the appendix holds the box alone and
\* sharing_displayed is True (no children were displayed) or the children saved at
\* toggle-on; a poll that runs while the panel is shown changes neither
C14_SharingDisplayedMatchesAppendix ==
    /\ [](/\ Truthy(sharing_displayed) <=> (\E i \in 1..Len(children) : children[i] = Box)
          /\ ~Truthy(sharing_displayed) => sharing_displayed = PyFalse
          /\ Truthy(sharing_displayed) =>
                /\ children = <<Box>>
                /\ shown_before = <<>> => sharing_displayed = PyTrue
                /\ shown_before # <<>> => sharing_displayed = PyTuple(shown_before))
    /\ [][(TimerPoll /\ Truthy(sharing_displayed)) =>
            /\ children' = children
            /\ sharing_displayed' = sharing_displayed]_vars

\* C14 witness: the panel is shown with saved children, a Dropdown was edited and a
\* poll has loaded the job since the panel was toggled on
C14_Witness ==
    /\ cycle = "on_polled"
    /\ edited
    /\ sharing_displayed.py = "tuple"
    /\ Len(sharing_displayed.items) = MaxChildren
    /\ children = <<Box>>

\* C15: a poll whose fetch fails changes name and error only: status, description,
\* files, visualization, the appendix children and sharing_displayed are as before,
\* and no Timer is pending
C15_FailedPollFrame ==
    [][((TimerPoll \/ GPJobWidget_init) /\ last' = "failed") =>
            /\ UNCHANGED <<status, description, files, visualization, children,
                           sharing_displayed>>
            /\ name' = "Error Loading Job"
            /\ error' = "Error loading job #42"
            /\ timers' = 0]_vars

\* C15 witness: the fetch failed while the panel was shown on a pending job
C15_Witness ==
    /\ last = "failed"
    /\ status = "Pending"
    /\ timers = 0
    /\ Truthy(sharing_displayed)
    /\ Len(files) > 0

\* C16: Save on a form no Dropdown of which was edited commits for every group the
\* rights that were fetched, except that a group fetched as write without read is
\* shown as 'Private' and committed without rights; no entry ever committed has
\* write without read
C16_UneditedSaveRoundTrip ==
    [][(Save \/ SaveRaises) =>
            LET p == calls'[1].arg IN
            /\ \A i \in 1..Len(p) : ~(p[i].write /\ ~p[i].read)
            /\ ~edited =>
                 /\ Len(p) = Len(fetched)
                 /\ \A i \in 1..Len(fetched) :
                       IF fetched[i].write /\ ~fetched[i].read
                       THEN /\ group_widgets[i].value = "Private"
                            /\ p[i] = [id |-> fetched[i].id, read |-> FALSE, write |-> FALSE]
                       ELSE p[i] = fetched[i]]_vars

\* C16 witness: Save was clicked on an unedited form whose first group was fetched
\* as write without read and whose second group was fetched as read and write
C16_Witness ==
    /\ ~edited
    /\ Truthy(sharing_displayed)
    /\ Len(fetched) = 2
    /\ fetched[1] = [id |-> "g1", read |-> FALSE, write |-> TRUE]
    /\ fetched[2] = [id |-> "g2", read |-> TRUE, write |-> TRUE]
    /\ Len(calls) = 2
    /\ calls[1].op = "set_permissions"
    /\ calls[1].arg = <<[id |-> "g1", read |-> FALSE, write |-> FALSE],
                        [id |-> "g2", read |-> TRUE, write |-> TRUE]>>

\* C17: when fetching the permissions raises in a toggle-on, sharing_displayed
\* stays False and the appendix children are unchanged; when set_permissions
\* raises in Save, the panel stays displayed with the children it saved
C17_RaisingCallsLeaveToggleState ==
    [][/\ ShareJobRaises =>
            /\ sharing_displayed' = PyFalse
            /\ children' = children
            /\ \A i \in 1..Len(children') : children'[i] # Box
       /\ SaveRaises =>
            /\ Truthy(sharing_displayed')
            /\ sharing_displayed' = sharing_displayed
            /\ children' = <<Box>>
            /\ group_widgets' = group_widgets]_vars

\* C17 witness: set_permissions raised on an edited form that had saved children
C17_Witness ==
    /\ Len(calls) = 2
    /\ calls[1].op = "set_permissions"
    /\ calls[2] = Raised
    /\ edited
    /\ sharing_displayed.py = "tuple"
    /\ sharing_displayed.items = shown_before
    /\ children = <<Box>>

\* C18: Cancel never calls set_permissions, so the job's permissions are unchanged
\* whatever the Dropdowns were edited to, and it toggles the panel off with the
\* children shown before restored
C18_CancelSavesNothing ==
    [][Cancel =>
            /\ CallsOf(calls', "set_permissions") = {}
            /\ calls' = <<ToggleCall>>
            /\ perms' = perms
            /\ ~Truthy(sharing_displayed')
            /\ children' = shown_before]_vars

\* C18 witness: an edited form was closed without a save: the permissions are as
\* fetched, and the children are back
C18_Witness ==
    /\ calls = <<ToggleCall>>
    /\ edited
    /\ ~Truthy(sharing_displayed)
    /\ Len(children) > 0
    /\ children = shown_before
    /\ Len(perms) = 2
    /\ perms[1].write /\ ~perms[1].read

\* the child widgets of the list built last
ChildWidgetsIn(ch) == {i \in 1..Len(ch) : ch[i].kind = "GPJobWidget"}

\* C12: with poll on its Timer thread interleaved statement by statement with
\* toggle_job_sharing, the permissions box is not overwritten while sharing_displayed
\* is truthy, the child widgets that were built are displayed or saved in
\* sharing_displayed, and no second list of child widgets is built
C12_ChildrenSurviveInterleaving ==
    /\ (pc.ui = "idle" /\ Truthy(sharing_displayed)) => children = <<Box>>
    /\ (pc = Idle /\ nbuilds > 0) =>
          \/ ChildWidgetsIn(children) # {}
          \/ sharing_displayed.py = "tuple" /\ ChildWidgetsIn(sharing_displayed.items) # {}
    /\ nbuilds <= 1

==========================================================================
